---- MODULE Spec2Model ----
(***************************************************************************)
(* Model of src/kyc.py: the Streamlit KYC script (credential loading,      *)
(* upload intake, Document AI OCR, three GPT-4o calls, percentage          *)
(* extraction, display, temp-file cleanup).                                *)
(*                                                                         *)
(* Python strings are modelled as sequences of one-character strings, so   *)
(* that splitting, lower-casing, stripping and regular-expression search   *)
(* are computed on the characters.                                         *)
(***************************************************************************)
EXTENDS Integers, Sequences, FiniteSets, TLC

VARIABLES
    pc,              \* position of the script run
    secrets,         \* keys present in st.secrets
    uploaded_file,   \* name of the uploaded file, or NoFile
    file_extension,  \* line 146
    mime_type,       \* line 147
    files,           \* temporary files that exist on disk
    created,         \* number of temporary files created by the run
    extracted_text,  \* line 159
    kyc_details,     \* line 163
    fraud_analysis,  \* line 172
    fraud_risk,      \* line 173
    aml_analysis,    \* line 176
    aml_risk,        \* line 177
    calls,           \* provider calls made, in order: [provider, input]
    inflight,        \* providers with a call started and not yet returned
    failed,          \* gateway stages whose provider call raised
    ui,              \* st.error / st.warning / uncaught-exception messages shown
    shown,           \* the risk levels written by lines 181-182, or NotShown
    text,            \* argument of a stand-alone extract_percentage call
    result           \* its return value, or NotRun

vars == <<pc, secrets, uploaded_file, file_extension, mime_type, files, created,
          extracted_text, kyc_details, fraud_analysis, fraud_risk, aml_analysis,
          aml_risk, calls, inflight, failed, ui, shown, text, result>>

pipelineVars == <<pc, secrets, uploaded_file, file_extension, mime_type, files,
                  created, extracted_text, kyc_details, fraud_analysis, fraud_risk,
                  aml_analysis, aml_risk, calls, inflight, failed, ui, shown>>

-----------------------------------------------------------------------------
(* Bounds of the model *)

\* longest text handed to a stand-alone extract_percentage call
MaxLen == 5
\* longest completion returned by the fraud and AML calls
MaxNarrLen == 4
\* longest completion returned by the field-structuring call
MaxKycLen == 2
\* longest text returned by the OCR provider
MaxOcrLen == 1

\* characters of the texts handed to a stand-alone extract_percentage call
PctChars == {"1", "2", "%", "-", "x"}
\* characters of the fraud and AML completions
NarrChars == {"9", "%"}
\* characters of the field-structuring completions
KycChars == {"x", " "}
\* characters of the OCR text
OcrChars == {"x"}

\* all texts over alphabet chars of length at most n
Texts(chars, n) == UNION {[1..k -> chars] : k \in 0..n}

-----------------------------------------------------------------------------
(* Values a Python name holds before its assignment *)

Unset == <<"<unset>">>
NotRun == <<"<not run>">>
NotShown == [fraud_risk |-> Unset, aml_risk |-> Unset, fraud_analysis |-> Unset,
             aml_analysis |-> Unset]
NoFile == <<"<no file>">>

-----------------------------------------------------------------------------
(* Strings helpers: str.lower, str.split(".")[-1], str.strip *)

UpperCase == <<"A", "B", "C", "D", "E", "F", "G", "H", "I", "J", "K", "L", "M",
               "N", "O", "P", "Q", "R", "S", "T", "U", "V", "W", "X", "Y", "Z">>
LowerCase == <<"a", "b", "c", "d", "e", "f", "g", "h", "i", "j", "k", "l", "m",
               "n", "o", "p", "q", "r", "s", "t", "u", "v", "w", "x", "y", "z">>

LowerChar(c) ==
    IF \E i \in 1..Len(UpperCase) : UpperCase[i] = c
    THEN LowerCase[CHOOSE i \in 1..Len(UpperCase) : UpperCase[i] = c]
    ELSE c

Lower(s) == [i \in 1..Len(s) |-> LowerChar(s[i])]

RECURSIVE LastSegment(_)
\* s.split(".")[-1]: what follows the last "." (all of s when it has none)
LastSegment(s) ==
    IF \E i \in 1..Len(s) : s[i] = "."
    THEN LastSegment(Tail(SubSeq(s, CHOOSE i \in 1..Len(s) : s[i] = ".", Len(s))))
    ELSE s

IsSpace(c) == c = " "

RECURSIVE LStrip(_)
LStrip(s) == IF s /= <<>> /\ IsSpace(Head(s)) THEN LStrip(Tail(s)) ELSE s

RECURSIVE RStrip(_)
RStrip(s) ==
    IF s /= <<>> /\ IsSpace(s[Len(s)]) THEN RStrip(SubSeq(s, 1, Len(s) - 1)) ELSE s

Strip(s) == RStrip(LStrip(s))

-----------------------------------------------------------------------------
(* extract_percentage: re.search(r'(\d{1,3})%', text), lines 74-76 *)

Digits == {"0", "1", "2", "3", "4", "5", "6", "7", "8", "9"}

IsDigit(c) == c \in Digits

\* the quantifier {1,3}
MinDigits == 1
MaxDigits == 3

Unknown == <<"U", "n", "k", "n", "o", "w", "n">>

RECURSIVE GreedyDigits(_, _, _)
\* \d{1,3} is greedy: from position i it first takes as many digits as it
\* can, at most MaxDigits; k digits are taken so far
GreedyDigits(s, i, k) ==
    IF k < MaxDigits /\ i + k <= Len(s) /\ IsDigit(s[i + k])
    THEN GreedyDigits(s, i, k + 1)
    ELSE k

RECURSIVE Backtrack(_, _, _)
\* with k digits taken from position i the next character must be "%";
\* otherwise the quantifier gives one digit back, down to MinDigits.
\* The number of digits of the match, 0 when there is none at i.
Backtrack(s, i, k) ==
    IF k < MinDigits THEN 0
    ELSE IF i + k <= Len(s) /\ s[i + k] = "%" THEN k
    ELSE Backtrack(s, i, k - 1)

MatchAt(s, i) == Backtrack(s, i, GreedyDigits(s, i, 0))

RECURSIVE SearchFrom(_, _)
\* re.search tries the start positions from left to right
SearchFrom(s, i) ==
    IF i > Len(s) THEN [start |-> 0, len |-> 0]
    ELSE IF MatchAt(s, i) > 0 THEN [start |-> i, len |-> MatchAt(s, i)]
    ELSE SearchFrom(s, i + 1)

RECURSIVE SearchBackFrom(_, _)
\* a search that tries the start positions from right to left
SearchBackFrom(s, i) ==
    IF i < 1 THEN [start |-> 0, len |-> 0]
    ELSE IF MatchAt(s, i) > 0 THEN [start |-> i, len |-> MatchAt(s, i)]
    ELSE SearchBackFrom(s, i - 1)

\* mutant of re_search: the last match instead of the first
re_search_last(s) == SearchBackFrom(s, Len(s))

re_search(s) == SearchFrom(s, 1)

\* mutant of extract_percentage: match.group(0), the digits with their "%"
extract_percentage_group0(s) ==
    LET m == re_search(s)
    IN  IF m.len > 0 THEN SubSeq(s, m.start, m.start + m.len) ELSE Unknown

extract_percentage(s) ==
    LET m == re_search(s)
    IN  IF m.len > 0 THEN SubSeq(s, m.start, m.start + m.len - 1) ELSE Unknown

-----------------------------------------------------------------------------
(* A stand-alone call of extract_percentage on an arbitrary text *)

PipelineIdle ==
    /\ pc = "idle"
    /\ secrets = {}
    /\ uploaded_file = NoFile
    /\ file_extension = Unset
    /\ mime_type = "unset"
    /\ files = {}
    /\ created = 0
    /\ extracted_text = Unset
    /\ kyc_details = Unset
    /\ fraud_analysis = Unset
    /\ fraud_risk = Unset
    /\ aml_analysis = Unset
    /\ aml_risk = Unset
    /\ calls = <<>>
    /\ inflight = {}
    /\ failed = {}
    /\ ui = {}
    /\ shown = NotShown

InitPct ==
    /\ PipelineIdle
    /\ text \in Texts(PctChars, MaxLen)
    /\ result = NotRun

ExtractPercentage ==
    /\ result = NotRun
    /\ result' = extract_percentage(text)
    /\ UNCHANGED <<text, pipelineVars>>

NextPct == ExtractPercentage

SpecPct == InitPct /\ [][NextPct]_vars

-----------------------------------------------------------------------------
(* The script run: configuration and upload *)

SecretKeys == {"gcp.credentials", "gcp.processor_id", "gcp.project_id",
               "openai.api_key"}

\* names the upload control accepts: type=["jpg", "png", "pdf"], in either case
Stems == {<<"a">>, <<"a", ".", "b">>}
Extensions == {<<"p", "d", "f">>, <<"P", "D", "F">>, <<"p", "n", "g">>,
               <<"P", "N", "G">>, <<"j", "p", "g">>}
FileNames == {stem \o <<".">> \o ext : stem \in Stems, ext \in Extensions}

Init ==
    /\ pc = "load_credentials"
    /\ secrets \in SUBSET SecretKeys
    /\ uploaded_file \in FileNames \cup {NoFile}
    /\ file_extension = Unset
    /\ mime_type = "unset"
    /\ files = {}
    /\ created = 0
    /\ extracted_text = Unset
    /\ kyc_details = Unset
    /\ fraud_analysis = Unset
    /\ fraud_risk = Unset
    /\ aml_analysis = Unset
    /\ aml_risk = Unset
    /\ calls = <<>>
    /\ inflight = {}
    /\ failed = {}
    /\ ui = {}
    /\ shown = NotShown
    /\ text = <<>>
    /\ result = NotRun

\* lines 18-31: the try block reads gcp.credentials and gcp.processor_id;
\* a KeyError is reported with st.error and the script stops
LoadCredentials ==
    /\ pc = "load_credentials"
    /\ IF {"gcp.credentials", "gcp.processor_id"} \subseteq secrets
       THEN /\ pc' = "init_openai"
            /\ ui' = ui
       ELSE /\ pc' = "stopped"
            /\ ui' = ui \cup {"Missing secret key"}
    /\ UNCHANGED <<secrets, uploaded_file, file_extension, mime_type, files,
                   created, extracted_text, kyc_details, fraud_analysis,
                   fraud_risk, aml_analysis, aml_risk, calls, inflight, failed,
                   shown, text, result>>

\* line 34: outside any try; a missing key is an uncaught KeyError, which
\* ends the script run with the exception shown
InitOpenAI ==
    /\ pc = "init_openai"
    /\ IF "openai.api_key" \in secrets
       THEN /\ pc' = "upload"
            /\ ui' = ui
       ELSE /\ pc' = "crashed"
            /\ ui' = ui \cup {"KeyError"}
    /\ UNCHANGED <<secrets, uploaded_file, file_extension, mime_type, files,
                   created, extracted_text, kyc_details, fraud_analysis,
                   fraud_risk, aml_analysis, aml_risk, calls, inflight, failed,
                   shown, text, result>>

\* line 145, no file uploaded: the script ends
NoUpload ==
    /\ pc = "upload"
    /\ uploaded_file = NoFile
    /\ pc' = "done"
    /\ UNCHANGED <<secrets, uploaded_file, file_extension, mime_type, files,
                   created, extracted_text, kyc_details, fraud_analysis,
                   fraud_risk, aml_analysis, aml_risk, calls, inflight, failed,
                   ui, shown, text, result>>

\* line 147
MimeOf(ext) ==
    IF ext = <<"p", "d", "f">> THEN "application/pdf" ELSE "image/jpeg"

\* the file tempfile.NamedTemporaryFile(delete=False) makes for the n-th time
TempFile(n) == <<"tmp", n>>

\* lines 145-151: extension, MIME type, temporary file
Intake ==
    /\ pc = "upload"
    /\ uploaded_file /= NoFile
    /\ file_extension' = Lower(LastSegment(uploaded_file))
    /\ mime_type' = MimeOf(file_extension')
    /\ files' = files \cup {TempFile(created + 1)}
    /\ created' = created + 1
    /\ pc' = "processor_name"
    /\ UNCHANGED <<secrets, uploaded_file, extracted_text, kyc_details,
                   fraud_analysis, fraud_risk, aml_analysis, aml_risk, calls,
                   inflight, failed, ui, shown, text, result>>

\* line 156: reads gcp.project_id and gcp.processor_id, outside any try
BuildProcessorName ==
    /\ pc = "processor_name"
    /\ IF {"gcp.project_id", "gcp.processor_id"} \subseteq secrets
       THEN /\ pc' = "ocr_call"
            /\ ui' = ui
       ELSE /\ pc' = "crashed"
            /\ ui' = ui \cup {"KeyError"}
    /\ UNCHANGED <<secrets, uploaded_file, file_extension, mime_type, files,
                   created, extracted_text, kyc_details, fraud_analysis,
                   fraud_risk, aml_analysis, aml_risk, calls, inflight, failed,
                   shown, text, result>>

-----------------------------------------------------------------------------
(* The gateway stages. A provider call is two steps, the request and its  *)
(* return; a provider answers with a text or raises.                       *)

Raised == [ok |-> FALSE, text |-> <<>>]
Answers(chars, n) == {[ok |-> TRUE, text |-> t] : t \in Texts(chars, n)}

OcrResponses == Answers(OcrChars, MaxOcrLen) \cup {Raised}
KycResponses == Answers(KycChars, MaxKycLen) \cup {Raised}
NarrResponses == Answers(NarrChars, MaxNarrLen) \cup {Raised}

\* line 71
KycErrorText ==
    <<"E", "r", "r", "o", "r", " ", "o", "c", "c", "u", "r", "r", "e", "d", " ",
      "d", "u", "r", "i", "n", "g", " ", "K", "Y", "C", " ", "e", "x", "t", "r",
      "a", "c", "t", "i", "o", "n", ".">>
\* line 107
FraudErrorText ==
    <<"E", "r", "r", "o", "r", " ", "o", "c", "c", "u", "r", "r", "e", "d", " ",
      "d", "u", "r", "i", "n", "g", " ", "f", "r", "a", "u", "d", " ", "a", "n",
      "a", "l", "y", "s", "i", "s", ".">>
\* line 138
AmlErrorText ==
    <<"E", "r", "r", "o", "r", " ", "o", "c", "c", "u", "r", "r", "e", "d", " ",
      "d", "u", "r", "i", "n", "g", " ", "A", "M", "L", " ", "a", "n", "a", "l",
      "y", "s", "i", "s", ".">>

\* lines 39-53: response.document.text, or "" from the except branch
extract_text_google(r) == IF r.ok THEN r.text ELSE <<>>

\* lines 57-71
extract_kyc_details(r) == IF r.ok THEN Strip(r.text) ELSE KycErrorText

\* mutant of analyze_fraud_risk: the except branch returns the empty string
analyze_fraud_risk_empty(r) == IF r.ok THEN Strip(r.text) ELSE <<>>

\* lines 93-107
analyze_fraud_risk(r) == IF r.ok THEN Strip(r.text) ELSE FraudErrorText

\* lines 125-138
analyze_aml_risk(r) == IF r.ok THEN Strip(r.text) ELSE AmlErrorText

\* the st.error of a stage's except branch (lines 52, 70, 106, 137)
StageError(stage) ==
    CASE stage = "ocr" -> "Error extracting text with Google Document AI"
      [] stage = "kyc" -> "Error during OpenAI KYC extraction"
      [] stage = "fraud" -> "Error during OpenAI Fraud Analysis"
      [] stage = "aml" -> "Error during OpenAI AML Analysis"

\* a stage's request leaves: logged with the text interpolated into it
Request(stage, input, next) ==
    /\ calls' = Append(calls, [provider |-> stage, input |-> input])
    /\ inflight' = inflight \cup {stage}
    /\ pc' = next

\* a stage's call returns with response r
Returned(stage, r, next) ==
    /\ inflight' = inflight \ {stage}
    /\ failed' = IF r.ok THEN failed ELSE failed \cup {stage}
    /\ ui' = IF r.ok THEN ui ELSE ui \cup {StageError(stage)}
    /\ pc' = next

\* line 159 into lines 40-49: the file's bytes go to Document AI
OcrCall ==
    /\ pc = "ocr_call"
    /\ Request("ocr", uploaded_file, "ocr_wait")
    /\ UNCHANGED <<secrets, uploaded_file, file_extension, mime_type, files,
                   created, extracted_text, kyc_details, fraud_analysis,
                   fraud_risk, aml_analysis, aml_risk, failed, ui, shown, text,
                   result>>

\* lines 49-53 and the assignment of line 159
OcrReturn ==
    /\ pc = "ocr_wait"
    /\ \E r \in OcrResponses :
         /\ extracted_text' = extract_text_google(r)
         /\ Returned("ocr", r, "kyc_call")
    /\ UNCHANGED <<secrets, uploaded_file, file_extension, mime_type, files,
                   created, kyc_details, fraud_analysis, fraud_risk,
                   aml_analysis, aml_risk, calls, shown, text, result>>

\* line 163 into lines 58-67: no test of extracted_text comes before it
KycCall ==
    /\ pc = "kyc_call"
    /\ Request("kyc", extracted_text, "kyc_wait")
    /\ UNCHANGED <<secrets, uploaded_file, file_extension, mime_type, files,
                   created, extracted_text, kyc_details, fraud_analysis,
                   fraud_risk, aml_analysis, aml_risk, failed, ui, shown, text,
                   result>>

\* a KycReturn that goes back to the request when the call raised
KycReturnRetry ==
    /\ pc = "kyc_wait"
    /\ \E r \in KycResponses :
         /\ kyc_details' = extract_kyc_details(r)
         /\ Returned("kyc", r, IF r.ok THEN "fraud_call" ELSE "kyc_call")
    /\ UNCHANGED <<secrets, uploaded_file, file_extension, mime_type, files,
                   created, extracted_text, fraud_analysis, fraud_risk,
                   aml_analysis, aml_risk, calls, shown, text, result>>

\* lines 68-71 and the assignment of line 163
KycReturn ==
    /\ pc = "kyc_wait"
    /\ \E r \in KycResponses :
         /\ kyc_details' = extract_kyc_details(r)
         /\ Returned("kyc", r, "fraud_call")
    /\ UNCHANGED <<secrets, uploaded_file, file_extension, mime_type, files,
                   created, extracted_text, fraud_analysis, fraud_risk,
                   aml_analysis, aml_risk, calls, shown, text, result>>

\* line 172 into lines 80-102
FraudCall ==
    /\ pc = "fraud_call"
    /\ Request("fraud", kyc_details, "fraud_wait")
    /\ UNCHANGED <<secrets, uploaded_file, file_extension, mime_type, files,
                   created, extracted_text, kyc_details, fraud_analysis,
                   fraud_risk, aml_analysis, aml_risk, failed, ui, shown, text,
                   result>>

\* lines 104-107 and lines 172-173
FraudReturn ==
    /\ pc = "fraud_wait"
    /\ \E r \in NarrResponses :
         /\ fraud_analysis' = analyze_fraud_risk(r)
         /\ fraud_risk' = extract_percentage(fraud_analysis')
         /\ Returned("fraud", r, "aml_call")
    /\ UNCHANGED <<secrets, uploaded_file, file_extension, mime_type, files,
                   created, extracted_text, kyc_details, aml_analysis, aml_risk,
                   calls, shown, text, result>>

\* an AmlCall that hands over the fraud stage's output
AmlCallChained ==
    /\ pc = "aml_call"
    /\ Request("aml", fraud_analysis, "aml_wait")
    /\ UNCHANGED <<secrets, uploaded_file, file_extension, mime_type, files,
                   created, extracted_text, kyc_details, fraud_analysis,
                   fraud_risk, aml_analysis, aml_risk, failed, ui, shown, text,
                   result>>

\* line 176 into lines 111-133: the argument is kyc_details
AmlCall ==
    /\ pc = "aml_call"
    /\ Request("aml", kyc_details, "aml_wait")
    /\ UNCHANGED <<secrets, uploaded_file, file_extension, mime_type, files,
                   created, extracted_text, kyc_details, fraud_analysis,
                   fraud_risk, aml_analysis, aml_risk, failed, ui, shown, text,
                   result>>

\* lines 135-138 and lines 176-177
AmlReturn ==
    /\ pc = "aml_wait"
    /\ \E r \in NarrResponses :
         /\ aml_analysis' = analyze_aml_risk(r)
         /\ aml_risk' = extract_percentage(aml_analysis')
         /\ Returned("aml", r, "display")
    /\ UNCHANGED <<secrets, uploaded_file, file_extension, mime_type, files,
                   created, extracted_text, kyc_details, fraud_analysis,
                   fraud_risk, calls, shown, text, result>>

\* lines 180-188: the two risk levels, then the two narratives
Display ==
    /\ pc = "display"
    /\ shown' = [fraud_risk |-> fraud_risk, aml_risk |-> aml_risk,
                 fraud_analysis |-> fraud_analysis,
                 aml_analysis |-> aml_analysis]
    /\ pc' = "cleanup"
    /\ UNCHANGED <<secrets, uploaded_file, file_extension, mime_type, files,
                   created, extracted_text, kyc_details, fraud_analysis,
                   fraud_risk, aml_analysis, aml_risk, calls, inflight, failed,
                   ui, text, result>>

\* line 191: os.remove(temp_path), the last statement of the script
Cleanup ==
    /\ pc = "cleanup"
    /\ files' = files \ {TempFile(created)}
    /\ pc' = "done"
    /\ UNCHANGED <<secrets, uploaded_file, file_extension, mime_type, created,
                   extracted_text, kyc_details, fraud_analysis, fraud_risk,
                   aml_analysis, aml_risk, calls, inflight, failed, ui, shown,
                   text, result>>

Next ==
    \/ LoadCredentials
    \/ InitOpenAI
    \/ NoUpload
    \/ Intake
    \/ BuildProcessorName
    \/ OcrCall
    \/ OcrReturn
    \/ KycCall
    \/ KycReturn
    \/ FraudCall
    \/ FraudReturn
    \/ AmlCall
    \/ AmlReturn
    \/ Display
    \/ Cleanup

Spec == Init /\ [][Next]_vars

-----------------------------------------------------------------------------
(* Properties of the script run *)

Ended == pc \in {"done", "stopped", "crashed"}

LlmStages == {"kyc", "fraud", "aml"}

CallsOf(stage) == {i \in DOMAIN calls : calls[i].provider = stage}

\* C1: when the OCR stage returns the empty string, no field-structuring,
\* fraud or AML call is made in the run, and a warning is shown instead.
C1_EmptyOcrStopsPipeline ==
    extracted_text = <<>> =>
        /\ \A i \in DOMAIN calls : calls[i].provider = "ocr"
        /\ Ended => "warning" \in ui

\* C2: one temporary file is created per run, and when the run has ended,
\* however it ended, the temporary file no longer exists.
C2_TempFileRemovedOnEveryExit ==
    /\ created <= 1
    /\ Ended => files = {}

\* C3: pdf gives application/pdf, png gives image/png, every other
\* lower-cased extension gives image/jpeg.
C3_MimeMapping ==
    file_extension /= Unset =>
        mime_type = CASE file_extension = <<"p", "d", "f">> -> "application/pdf"
                      [] file_extension = <<"p", "n", "g">> -> "image/png"
                      [] OTHER -> "image/jpeg"

\* C6: with a required configuration value absent, no upload is read, no
\* temporary file is created and no provider call is made.
C6_MissingConfigHaltsAtStartup ==
    ~(SecretKeys \subseteq secrets) =>
        /\ file_extension = Unset
        /\ created = 0
        /\ calls = <<>>

StageOrder == <<"ocr", "kyc", "fraud", "aml">>

C8_StageInputs ==
    /\ \A i \in CallsOf("kyc") : calls[i].input = extracted_text
    /\ \A i \in CallsOf("fraud") : calls[i].input = kyc_details
    /\ \A i \in CallsOf("aml") : calls[i].input = kyc_details

C8_Witness ==
    /\ pc = "done"
    /\ failed = {}
    /\ fraud_analysis /= kyc_details
    /\ \E i \in CallsOf("aml") : calls[i].input = kyc_details

\* C8 as stated: each stage receives the output of the stage immediately
\* before it, so AML analysis receives the fraud analysis.
C8_AmlConsumesFraudOutput ==
    /\ \A i \in CallsOf("kyc") : calls[i].input = extracted_text
    /\ \A i \in CallsOf("fraud") : calls[i].input = kyc_details
    /\ \A i \in CallsOf("aml") : calls[i].input = fraud_analysis

\* C5 as amended: a provider failure in field structuring, fraud analysis
\* or AML analysis is shown as an error and the stage's output is that
\* stage's own fallback string; the run does not abort, every remaining
\* stage runs, and the fallback text stands where the stage's output is used.
C5_StageFallback ==
    /\ "kyc" \in failed =>
          /\ kyc_details = KycErrorText
          /\ StageError("kyc") \in ui
          /\ \A i \in CallsOf("fraud") \cup CallsOf("aml") :
                calls[i].input = KycErrorText
    /\ "fraud" \in failed =>
          /\ fraud_analysis = FraudErrorText
          /\ StageError("fraud") \in ui
          /\ shown /= NotShown => shown.fraud_analysis = FraudErrorText
    /\ "aml" \in failed =>
          /\ aml_analysis = AmlErrorText
          /\ StageError("aml") \in ui
          /\ shown /= NotShown => shown.aml_analysis = AmlErrorText
    /\ failed \cap LlmStages /= {} =>
          /\ pc \notin {"stopped", "crashed"}
          /\ pc = "done" => Len(calls) = Len(StageOrder) /\ shown /= NotShown

C5_Witness ==
    /\ pc = "done"
    /\ failed = LlmStages
    /\ calls[3].input = KycErrorText
    /\ shown.fraud_analysis = FraudErrorText
    /\ shown.aml_analysis = AmlErrorText

SpecFallback ==
    <<"U", "n", "k", "n", "o", "w", "n", " ", "r", "i", "s", "k", " ", "/", " ",
      "e", "r", "r", "o", "r", " ", "o", "c", "c", "u", "r", "r", "e", "d">>

\* C5 as stated: the output of a failed stage is the single fixed string
\* "Unknown risk / error occurred".
C5_FixedFallback ==
    /\ "kyc" \in failed => kyc_details = SpecFallback
    /\ "fraud" \in failed => fraud_analysis = SpecFallback
    /\ "aml" \in failed => aml_analysis = SpecFallback

DigitValue == [c \in Digits |->
                 CASE c = "0" -> 0 [] c = "1" -> 1 [] c = "2" -> 2 [] c = "3" -> 3
                   [] c = "4" -> 4 [] c = "5" -> 5 [] c = "6" -> 6 [] c = "7" -> 7
                   [] c = "8" -> 8 [] c = "9" -> 9]

RECURSIVE Value(_)
\* the number a string of decimal digits denotes
Value(s) == IF s = <<>> THEN 0 ELSE 10 * Value(SubSeq(s, 1, Len(s) - 1)) + DigitValue[s[Len(s)]]

IsNumberUpTo(s, digits, max) ==
    /\ Len(s) \in 1..digits
    /\ \A i \in 1..Len(s) : IsDigit(s[i])
    /\ Value(s) \in 0..max

\* C10 as amended: each displayed risk level is "Unknown" or a string of one
\* to three decimal digits, a number from 0 to 999.
C10_PercentDigits ==
    shown /= NotShown =>
        /\ shown.fraud_risk = Unknown \/ IsNumberUpTo(shown.fraud_risk, 3, 999)
        /\ shown.aml_risk = Unknown \/ IsNumberUpTo(shown.aml_risk, 3, 999)

C10_Witness ==
    /\ shown /= NotShown
    /\ shown.fraud_risk = <<"9", "9", "9">>
    /\ shown.aml_risk = Unknown

\* C10 as stated: each displayed risk level is an integer from 0 to 100 or
\* the value "unknown".
C10_PercentInRange ==
    shown /= NotShown =>
        /\ shown.fraud_risk = Unknown \/ IsNumberUpTo(shown.fraud_risk, 3, 100)
        /\ shown.aml_risk = Unknown \/ IsNumberUpTo(shown.aml_risk, 3, 100)

-----------------------------------------------------------------------------
(* Properties of extract_percentage *)

\* k digits start at position i of s and a "%" follows them
Occurs(s, i, k) ==
    /\ i >= 1
    /\ i + k <= Len(s)
    /\ \A j \in i..(i + k - 1) : IsDigit(s[j])
    /\ s[i + k] = "%"

Occurrences(s) == {o \in (1..Len(s)) \X (1..3) : Occurs(s, o[1], o[2])}

\* C4: extract_percentage returns the digits of the first occurrence, in
\* reading order, of one to three digits followed by "%", and "Unknown"
\* exactly when the text has no such occurrence.
C4_FirstOccurrence ==
    result /= NotRun =>
        /\ result = Unknown <=> Occurrences(text) = {}
        /\ Occurrences(text) /= {} =>
              \E o \in Occurrences(text) :
                 /\ \A q \in Occurrences(text) : o[1] <= q[1]
                 /\ result = SubSeq(text, o[1], o[1] + o[2] - 1)

C4_Witness ==
    /\ text = <<"1", "%", "2", "2", "%">>
    /\ result = <<"1">>

\* the length of the run of digits that ends just before position p
DigitRunBefore(s, p) ==
    CHOOSE n \in 0..(p - 1) :
       /\ \A j \in (p - n)..(p - 1) : IsDigit(s[j])
       /\ p - n - 1 >= 1 => ~IsDigit(s[p - n - 1])

\* the only "%" of s follows a run of four or more digits, or a minus sign
\* and digits
OnlyLongOrNegative(s) ==
    /\ Cardinality({p \in 1..Len(s) : s[p] = "%"}) = 1
    /\ LET p == CHOOSE q \in 1..Len(s) : s[q] = "%"
           n == DigitRunBefore(s, p)
       IN  \/ n >= 4
           \/ n >= 1 /\ p - n - 1 >= 1 /\ s[p - n - 1] = "-"

\* C9: for a text whose only "%" follows a number of four or more digits or
\* a negative number, extract_percentage returns no digits of that number.
C9_NoLongOrNegative ==
    result /= NotRun /\ OnlyLongOrNegative(text) => result = Unknown

====
